---- MODULE Spec2Model ----
(***************************************************************************)
(* A model of the ServiceLocator class of src/src/index.ts: a lazily       *)
(* constructed singleton holding a Map<string, any> from keys to service   *)
(* instances, with the operations getInstance, register, get and has.      *)
(*                                                                         *)
(* JavaScript values are modelled as tagged records, so that "the same     *)
(* instance" is equality of references and the falsy values (undefined,    *)
(* null, 0, false, '') are distinct values of their own.  Strings are TLA+ *)
(* strings; template literals are modelled by concatenation.               *)
(***************************************************************************)
EXTENDS Integers, Sequences, FiniteSets, TLC

VARIABLES
    instance,     \* the static field ServiceLocator.instance: 0 is undefined, n > 0 a reference into heap
    heap,         \* the ServiceLocator objects constructed so far; heap[n].services is the object's Map
    console,      \* the messages written by console.warn, in order
    returned,     \* history: the references getInstance has returned to callers
    registered,   \* history: for each key, the instance passed by the most recent register call (NoCall if none)
    nOverwrites,  \* history: the number of register calls made on a key that had been registered before
    replaced,     \* history: what the most recent call, if a register, found registered under its key (else NoCall)
    last          \* the most recent call: its operation, arguments and outcome

vars == <<instance, heap, console, returned, registered, nOverwrites, replaced, last>>

-----------------------------------------------------------------------------
(* Bounds of the model *)

\* register calls on an already registered key are explored up to this many
MaxOverwrites == 2

-----------------------------------------------------------------------------
(* JavaScript values *)

Undefined == [t |-> "undefined"]
Null      == [t |-> "null"]
Zero      == [t |-> "number", num |-> 0]
False     == [t |-> "boolean", bool |-> FALSE]
True      == [t |-> "boolean", bool |-> TRUE]
EmptyStr  == [t |-> "string", str |-> ""]
Obj(n)    == [t |-> "object", ref |-> n]

\* new ConsoleLogger() evaluated twice gives two distinct references
loggerA == Obj(1)
loggerB == Obj(2)

JsBool(b) == IF b THEN True ELSE False

FalsyValues == {Undefined, Null, Zero, False, EmptyStr}

\* the instances callers pass to register
Values == FalsyValues \cup {loggerA, loggerB}

\* the keys callers use; the empty string is a string like any other
Keys == {"", "Logger", "Missing"}

\* marks a key on which register was never called (not a JavaScript value)
NoCall == [t |-> "nocall"]

-----------------------------------------------------------------------------
(* Map<string, any>, as the class uses it (src/src/index.ts:9) *)

EmptyMap == [k \in {} |-> Undefined]

\* Map.prototype.has
MapHas(m, key) == key \in DOMAIN m

\* Map.prototype.get: undefined for a key without an entry
MapGet(m, key) == IF key \in DOMAIN m THEN m[key] ELSE Undefined

\* Map.prototype.set
MapSet(m, key, value) == [k \in (DOMAIN m) \cup {key} |-> IF k = key THEN value ELSE m[k]]

-----------------------------------------------------------------------------
(* Outcomes of a call *)

Return(v) == [threw |-> FALSE, ret |-> v, name |-> "", message |-> ""]

\* throw new Error(message)
ThrowError(msg) == [threw |-> TRUE, ret |-> Undefined, name |-> "Error", message |-> msg]

Call(op, this, key, inst, outcome) ==
    [op |-> op, this |-> this, key |-> key, instance |-> inst, outcome |-> outcome]

-----------------------------------------------------------------------------
(* The template literals of the class *)

\* `Service with key '${key}' is already registered. Overwriting.`
warnMessage(key) == "Service with key '" \o key \o "' is already registered. Overwriting."

\* a message that leaves the key out
notFoundMessage_noKey(key) == "Service not found."

\* `Service with key '${key}' not found.`
notFoundMessage(key) == "Service with key '" \o key \o "' not found."

-----------------------------------------------------------------------------
(* The methods, as functions of the object's state *)

services(this) == heap[this].services

\* a get that returns what Map.get returns, undefined on a miss, without the has check
getResult_noThrow(this, key) == Return(MapGet(services(this), key))

\* a get that tests the stored value's truthiness instead of the key's presence
getResult_falsy(this, key) ==
    IF MapGet(services(this), key) \in FalsyValues
    THEN ThrowError(notFoundMessage(key))
    ELSE Return(MapGet(services(this), key))

\* has(key): boolean
hasResult(this, key) == MapHas(services(this), key)

\* get<T>(key): T, or the Error it throws
getResult(this, key) ==
    IF ~MapHas(services(this), key)
    THEN ThrowError(notFoundMessage(key))
    ELSE Return(MapGet(services(this), key))

\* the check-then-create of getInstance: the heap and the static field after the call
getInstanceHeap == IF instance = 0 THEN Append(heap, [services |-> EmptyMap]) ELSE heap

getInstanceField == IF instance = 0 THEN Len(heap) + 1 ELSE instance

\* a register that warns on every call
registerConsole_always(this, key) == Append(console, warnMessage(key))

\* what register writes to console.warn
registerConsole(this, key) ==
    IF MapHas(services(this), key) THEN Append(console, warnMessage(key)) ELSE console

\* a register that stores a copy of an object instead of the reference it was given
registerServices_copy(this, key, inst) ==
    MapSet(services(this), key, IF inst.t = "object" THEN Obj(inst.ref + 100) ELSE inst)

\* a register that keeps the first instance of a key (first-write-wins)
registerServices_keepFirst(this, key, inst) ==
    IF MapHas(services(this), key) THEN services(this) ELSE MapSet(services(this), key, inst)

\* a register that treats an undefined instance as a removal of the key
registerServices_deleteOnUndefined(this, key, inst) ==
    IF inst = Undefined
    THEN [k \in (DOMAIN services(this)) \ {key} |-> services(this)[k]]
    ELSE MapSet(services(this), key, inst)

\* a register that assigns a new Map holding only the new entry
registerServices_clear(this, key, inst) == MapSet(EmptyMap, key, inst)

\* the Map after register
registerServices(this, key, inst) == MapSet(services(this), key, inst)

-----------------------------------------------------------------------------
(* The methods, as steps of the program *)

\* a getInstance without the check: a new object on every call
getInstance_alwaysNew ==
    /\ heap' = Append(heap, [services |-> EmptyMap])
    /\ instance' = Len(heap) + 1
    /\ last' = Call("getInstance", 0, "", Undefined, Return([t |-> "ServiceLocator", ref |-> instance']))
    /\ UNCHANGED console

getInstance ==
    /\ heap' = getInstanceHeap
    /\ instance' = getInstanceField
    /\ last' = Call("getInstance", 0, "", Undefined, Return([t |-> "ServiceLocator", ref |-> instance']))
    /\ UNCHANGED console

register(this, key, inst) ==
    /\ console' = registerConsole(this, key)
    /\ heap' = [heap EXCEPT ![this].services = registerServices(this, key, inst)]
    /\ last' = Call("register", this, key, inst, Return(Undefined))
    /\ UNCHANGED instance

\* a get that takes the entry out of the Map as it returns it
get_consume(this, key) ==
    /\ last' = Call("get", this, key, Undefined, getResult(this, key))
    /\ heap' = [heap EXCEPT ![this].services = [k \in (DOMAIN services(this)) \ {key} |-> services(this)[k]]]
    /\ UNCHANGED <<instance, console>>

get(this, key) ==
    /\ last' = Call("get", this, key, Undefined, getResult(this, key))
    /\ UNCHANGED <<instance, heap, console>>

has(this, key) ==
    /\ last' = Call("has", this, key, Undefined, Return(JsBool(hasResult(this, key))))
    /\ UNCHANGED <<instance, heap, console>>

-----------------------------------------------------------------------------
(* The callers: any sequence of calls, each through a reference that        *)
(* getInstance returned (the constructor is private)                        *)

Init ==
    /\ instance = 0
    /\ heap = <<>>
    /\ console = <<>>
    /\ returned = {}
    /\ registered = [k \in Keys |-> NoCall]
    /\ nOverwrites = 0
    /\ replaced = NoCall
    /\ last = Call("none", 0, "", Undefined, Return(Undefined))

GetInstance ==
    /\ getInstance
    /\ returned' = returned \cup {instance'}
    /\ replaced' = NoCall
    /\ UNCHANGED <<registered, nOverwrites>>

Register ==
    \E this \in returned, key \in Keys, inst \in Values :
        /\ registered[key] = NoCall \/ nOverwrites < MaxOverwrites
        /\ register(this, key, inst)
        /\ registered' = [registered EXCEPT ![key] = inst]
        /\ replaced' = registered[key]
        /\ nOverwrites' = IF registered[key] = NoCall THEN nOverwrites ELSE nOverwrites + 1
        /\ UNCHANGED returned

Get ==
    \E this \in returned, key \in Keys :
        /\ get(this, key)
        /\ replaced' = NoCall
        /\ UNCHANGED <<returned, registered, nOverwrites>>

Has ==
    \E this \in returned, key \in Keys :
        /\ has(this, key)
        /\ replaced' = NoCall
        /\ UNCHANGED <<returned, registered, nOverwrites>>

Next == GetInstance \/ Register \/ Get \/ Has

Spec == Init /\ [][Next]_vars

-----------------------------------------------------------------------------
(* Properties *)

\* sub occurs in s as a contiguous substring
Contains(s, sub) ==
    \E i \in 1..(Len(s) - Len(sub) + 1) : SubSeq(s, i, i + Len(sub) - 1) = sub

\* the text a not-found message carries between its quotes
KeyNamedBy(msg) == SubSeq(msg, Len("Service with key '") + 1, Len(msg) - Len("' not found."))

\* C1: immediately after register(k, v) completes, has(k) is true and get(k)
\* returns v itself, the reference that was passed in, without failing.
C1_RegisterThenHasGet ==
    last.op = "register" =>
        /\ ~last.outcome.threw
        /\ hasResult(last.this, last.key)
        /\ getResult(last.this, last.key) = Return(last.instance)

C1_Witness ==
    /\ last.op = "register"
    /\ last.key = "Logger"
    /\ last.instance = loggerB
    /\ registered[""] = loggerA
    /\ getResult(last.this, "Logger") = Return(loggerB)

\* C2: for every key on which register was never called, whatever other keys
\* are registered, has returns false and get fails with the not-found Error
\* instead of returning a value.
C2_NeverRegisteredIsAbsent ==
    /\ \A this \in returned, k \in Keys :
          registered[k] = NoCall =>
              /\ ~hasResult(this, k)
              /\ getResult(this, k).threw
              /\ getResult(this, k).name = "Error"
              /\ Contains(getResult(this, k).message, "not found")
    /\ (last.op = "has" /\ registered[last.key] = NoCall) => last.outcome = Return(False)
    /\ (last.op = "get" /\ registered[last.key] = NoCall) => last.outcome.threw

C2_Witness ==
    /\ last.op = "get"
    /\ last.key = "Missing"
    /\ registered["Missing"] = NoCall
    /\ registered["Logger"] # NoCall
    /\ registered[""] # NoCall
    /\ last.outcome.threw

\* C3: register(k, v2) on a key that holds v1 replaces the stored value: the
\* call completes normally, one overwrite notification naming k is emitted,
\* get(k) returns v2 and not v1 right after it, and every later get(k)
\* returns the instance of the most recent register(k, _).
C3_LastWriteWins ==
    /\ [][\A this \in returned, k \in Keys :
              (last'.op = "register" /\ last'.this = this /\ last'.key = k /\ hasResult(this, k)) =>
                  /\ last'.outcome = Return(Undefined)
                  /\ Len(console') = Len(console) + 1
                  /\ SubSeq(console', 1, Len(console)) = console
                  /\ Contains(console'[Len(console')], k)
                  /\ Contains(console'[Len(console')], "already registered")
                  /\ getResult(this, k)' = Return(last'.instance)
                  /\ (getResult(this, k) # Return(last'.instance) =>
                         getResult(this, k)' # getResult(this, k))
         ]_vars
    /\ [][(last'.op = "get" /\ registered[last'.key] # NoCall) =>
              last'.outcome = Return(registered[last'.key])
         ]_vars

C3_Witness ==
    /\ last.op = "register"
    /\ last.key = "Logger"
    /\ replaced = loggerA
    /\ last.instance = loggerB
    /\ getResult(last.this, "Logger") = Return(loggerB)
    /\ console = <<"Service with key 'Logger' is already registered. Overwriting.">>

\* C4: every getInstance call returns the identical instance; it is
\* constructed on the first call and never again, none exists before the
\* first call, and what was registered through one returned reference is
\* seen by has and get through any other.
C4_Singleton ==
    /\ Cardinality(returned) <= 1
    /\ Len(heap) = (IF returned = {} THEN 0 ELSE 1)
    /\ (returned = {}) <=> (instance = 0)
    /\ returned \subseteq {instance}
    /\ last.op = "getInstance" => last.outcome = Return([t |-> "ServiceLocator", ref |-> instance])
    /\ \A this \in returned, k \in Keys :
          /\ hasResult(this, k) <=> (registered[k] # NoCall)
          /\ registered[k] # NoCall => getResult(this, k) = Return(registered[k])

C4_Witness ==
    /\ last.op = "getInstance"
    /\ registered["Logger"] = loggerA
    /\ \E this \in returned : getResult(this, "Logger") = Return(loggerA)

\* C5: whenever get(k) fails because k has no entry, the error names exactly
\* the requested key: the message contains k, the key it quotes is k, and it
\* is not the message of any other key.
C5_ErrorNamesTheKey ==
    /\ \A this \in returned, k \in Keys :
          getResult(this, k).threw =>
              /\ Contains(getResult(this, k).message, k)
              /\ KeyNamedBy(getResult(this, k).message) = k
              /\ \A j \in Keys \ {k} :
                    getResult(this, k).message # "Service with key '" \o j \o "' not found."
    /\ (last.op = "get" /\ last.outcome.threw) =>
          /\ ~hasResult(last.this, last.key)
          /\ Contains(last.outcome.message, last.key)
          /\ KeyNamedBy(last.outcome.message) = last.key

C5_Witness ==
    /\ last.op = "get"
    /\ last.key = "Missing"
    /\ last.outcome.threw
    /\ Contains(last.outcome.message, "Missing")
    /\ ~Contains(last.outcome.message, "Logger")
    /\ registered["Logger"] # NoCall

\* C6: get, has and getInstance never change the entries: the Map of every
\* object is the same before and after a has, a get that succeeds and a get
\* that fails, so has(k) keeps returning the same result until a register.
C6_ReadsChangeNothing ==
    [][last'.op \in {"get", "has", "getInstance"} =>
          /\ \A this \in returned :
                /\ this \in returned'
                /\ services(this)' = services(this)
                /\ \A k \in Keys : hasResult(this, k)' = hasResult(this, k)
          /\ console' = console
          /\ last'.op \in {"get", "has"} => (instance' = instance /\ heap' = heap)
      ]_vars

C6_Witness ==
    /\ last.op = "get"
    /\ last.key = "Missing"
    /\ last.outcome.threw
    /\ registered = [k \in Keys |-> IF k = "Logger" THEN loggerA ELSE NoCall]
    /\ \E this \in returned : services(this) = [k \in {"Logger"} |-> loggerA]

\* C7: no entry is ever removed: once has(k) is true it is true in every
\* later state, under any sequence of register, get, has and getInstance.
C7_NeverRemoved ==
    [][\A this \in returned, k \in Keys :
          hasResult(this, k) => (this \in returned' /\ hasResult(this, k)')
      ]_vars

C7_Witness ==
    /\ last.op = "register"
    /\ last.instance = Undefined
    /\ replaced = loggerA
    /\ hasResult(last.this, last.key)

\* C8: has(k) is true exactly when get(k) succeeds, whatever the stored
\* value: a key registered with undefined, null, 0, false or '' is present
\* and is returned by get, and the empty key is a key like any other.
C8_HasIffGetSucceeds ==
    /\ \A this \in returned, k \in Keys :
          /\ hasResult(this, k) <=> ~getResult(this, k).threw
          /\ registered[k] \in FalsyValues =>
                /\ hasResult(this, k)
                /\ getResult(this, k) = Return(registered[k])
    /\ (last.op = "get" /\ registered[last.key] \in FalsyValues) =>
          last.outcome = Return(registered[last.key])
    /\ (last.op = "has" /\ registered[last.key] \in FalsyValues) =>
          last.outcome = Return(True)

C8_Witness ==
    /\ last.op = "get"
    /\ last.key = ""
    /\ last.outcome = Return(Undefined)
    /\ registered[""] = Undefined
    /\ registered["Logger"] = Zero
    /\ registered["Missing"] = EmptyStr

\* C9: register(k, v) emits exactly one overwrite notification when k was
\* registered before the call (also when v is the instance already stored)
\* and none when it was not; so the notifications number the register calls
\* made on a key already present, and no other call emits any.
C9_OneWarningPerOverwrite ==
    /\ [](Len(console) = nOverwrites)
    /\ [][/\ (last'.op = "register" /\ registered[last'.key] # NoCall) =>
                /\ Len(console') = Len(console) + 1
                /\ SubSeq(console', 1, Len(console)) = console
                /\ Contains(console'[Len(console')], last'.key)
          /\ (last'.op = "register" /\ registered[last'.key] = NoCall) => console' = console
          /\ last'.op # "register" => console' = console
         ]_vars

C9_Witness ==
    /\ last.op = "register"
    /\ replaced = loggerA
    /\ last.instance = loggerA
    /\ nOverwrites = 2
    /\ Len(console) = 2

\* C10: register(k, v) changes only the entry of k: for every other key j,
\* has(j) and get(j) are the same after the call as before it, whether the
\* call creates k or overwrites it; so each key maps to at most one instance,
\* the one of the most recent register on that key.
C10_RegisterFrame ==
    /\ [][last'.op = "register" =>
              \A this \in returned, j \in Keys \ {last'.key} :
                  /\ hasResult(this, j)' = hasResult(this, j)
                  /\ getResult(this, j)' = getResult(this, j)
         ]_vars
    /\ [](\A this \in returned, k \in Keys :
              /\ MapHas(services(this), k) <=> (registered[k] # NoCall)
              /\ MapHas(services(this), k) => MapGet(services(this), k) = registered[k])

C10_Witness ==
    /\ last.op = "register"
    /\ last.key = "Logger"
    /\ replaced = loggerA
    /\ last.instance = loggerB
    /\ registered[""] = Zero
    /\ getResult(last.this, "") = Return(Zero)
    /\ ~hasResult(last.this, "Missing")

====
